---- MODULE Spec2Model ----
(***************************************************************************)
(* Model of src/src/info.rs (lxinfo): the parsers, the unit converter, the *)
(* host identity reader, the uptime reader and get_system_information.     *)
(*                                                                         *)
(* Text (the content of /etc/os-release, /proc/meminfo, /proc/uptime, the  *)
(* SHELL value, and every String built from them) is a TLA+ string, used   *)
(* as the sequence of its characters (Len, SubSeq, \o).  The raw utsname   *)
(* fields and the login name are sequences of C chars (i8, -128..127); a   *)
(* String decoded from them is the sequence of its UTF-8 bytes (0..255).   *)
(* Option<T>: None is <<>>, Some(x) is <<x>>.                              *)
(***************************************************************************)
EXTENDS Integers, Sequences, FiniteSets, TLC

\* ------------------------------------------------------------ Option<T>
None == <<>>
Some(x) == <<x>>
IsSome(o) == Len(o) = 1
IsNone(o) == Len(o) = 0
Unwrap(o) == o[1]

\* ------------------------------------------------------ str primitives
\* the i-th character of s, as a string of length one
Char(s, i) == SubSeq(s, i, i)

\* pat occurs in s at index i
MatchAt(s, pat, i) ==
    /\ i >= 1
    /\ i + Len(pat) - 1 <= Len(s)
    /\ SubSeq(s, i, i + Len(pat) - 1) = pat

\* index of the first occurrence of pat in s, 0 when there is none
Find(s, pat) ==
    LET hits == { i \in 1..Len(s) : MatchAt(s, pat, i) }
    IN  IF hits = {} THEN 0 ELSE CHOOSE i \in hits : \A j \in hits : i <= j

\* str::contains
contains(s, pat) == Find(s, pat) # 0

\* str::starts_with
starts_with(s, pat) == MatchAt(s, pat, 1)

\* str::split(pat) collected: the pieces between the non-overlapping
\* occurrences of the (non-empty) pattern, left to right; the last piece is
\* kept even when empty.
RECURSIVE split(_, _)
split(s, pat) ==
    LET i == Find(s, pat)
    IN  IF i = 0 THEN <<s>>
        ELSE <<SubSeq(s, 1, i - 1)>> \o split(SubSeq(s, i + Len(pat), Len(s)), pat)

\* Iterator::nth, Iterator::next, Iterator::last on a collected iterator
nth(it, n) == IF n + 1 <= Len(it) THEN Some(it[n + 1]) ELSE None
next(it) == nth(it, 0)
last(it) == IF Len(it) = 0 THEN None ELSE Some(it[Len(it)])

\* str::replace(c, "") for a one-character pattern
RECURSIVE remove(_, _)
remove(s, c) ==
    IF s = "" THEN ""
    ELSE (IF Head(s) = c THEN "" ELSE Head(s)) \o remove(Tail(s), c)

\* str::lines: split at "\n"; a final empty piece is not a line.  (A "\r"
\* before the "\n" is dropped too; no text of the model holds one.)
lines(s) ==
    LET pieces == split(s, "\n")
    IN  IF pieces[Len(pieces)] = "" THEN SubSeq(pieces, 1, Len(pieces) - 1)
        ELSE pieces

\* char::is_whitespace, for the white space the texts of the model hold
is_whitespace(c) == c \in {" ", "\n", "\t"}

\* str::split_whitespace: the maximal runs of non-whitespace characters
RECURSIVE split_whitespace(_)
split_whitespace(s) ==
    IF s = "" THEN <<>>
    ELSE IF is_whitespace(Head(s)) THEN split_whitespace(Tail(s))
    ELSE LET stops == { i \in 1..Len(s) : is_whitespace(Char(s, i)) }
             e == IF stops = {} THEN Len(s) + 1
                  ELSE CHOOSE i \in stops : \A j \in stops : i <= j
         IN  <<SubSeq(s, 1, e - 1)>> \o split_whitespace(SubSeq(s, e, Len(s)))

\* --------------------------------------------------- numbers and text
Digits == <<"0", "1", "2", "3", "4", "5", "6", "7", "8", "9">>
is_digit(c) == \E d \in 1..10 : Digits[d] = c
digit_value(c) == (CHOOSE d \in 1..10 : Digits[d] = c) - 1

\* u32::to_string / the Display of a non-negative whole number
RECURSIVE to_string(_)
to_string(n) ==
    IF n < 10 THEN Digits[n + 1]
    ELSE to_string(n \div 10) \o Digits[(n % 10) + 1]

RECURSIVE digits_value(_)
digits_value(ds) ==
    IF ds = "" THEN 0
    ELSE digits_value(SubSeq(ds, 1, Len(ds) - 1)) * 10 + digit_value(Char(ds, Len(ds)))

RECURSIVE strip_zeros(_)
strip_zeros(ds) ==
    IF ds # "" /\ Head(ds) = "0" THEN strip_zeros(Tail(ds)) ELSE ds

\* the digits of u32::MAX, 4294967295
U32MaxDigits == "4294967295"

\* ds (no leading zero) denotes a number above u32::MAX
RECURSIVE digits_greater(_, _)
digits_greater(a, b) ==
    IF a = "" THEN FALSE
    ELSE IF digit_value(Head(a)) # digit_value(Head(b))
         THEN digit_value(Head(a)) > digit_value(Head(b))
         ELSE digits_greater(Tail(a), Tail(b))

overflows_u32(ds) ==
    LET z == strip_zeros(ds)
    IN  \/ Len(z) > Len(U32MaxDigits)
        \/ Len(z) = Len(U32MaxDigits) /\ digits_greater(z, U32MaxDigits)

\* <u32 as FromStr>::from_str: an optional "+", then one or more decimal
\* digits, nothing else, and the value at most u32::MAX.  Option stands for
\* Result: None is Err.
parse_u32(s) ==
    LET ds == IF s # "" /\ Head(s) = "+" THEN Tail(s) ELSE s
    IN  IF ds = "" \/ (\E i \in 1..Len(ds) : ~is_digit(Char(ds, i))) THEN None
        ELSE IF overflows_u32(ds) THEN None
        ELSE Some(digits_value(ds))

\* <f64 as FromStr>::from_str on the tokens the model draws: an optional
\* sign and decimal digits give the (whole) number; every other token the
\* model draws (empty, a unit suffix, a label) is an Err.
parse_f64(s) ==
    LET neg == s # "" /\ Head(s) = "-"
        ds == IF s # "" /\ Head(s) \in {"+", "-"} THEN Tail(s) ELSE s
    IN  IF ds = "" \/ (\E i \in 1..Len(ds) : ~is_digit(Char(ds, i))) THEN None
        ELSE Some(IF neg THEN 0 - digits_value(ds) ELSE digits_value(ds))

\* ------------------------------------------------ results of a call
\* A call that can panic yields Ok(value) or Panic; Segv is the process
\* killed by a signal.
Ok(x) == [kind |-> "ok", val |-> <<x>>]
Panic == [kind |-> "panic", val |-> <<>>]
Segv == [kind |-> "segv", val |-> <<>>]
IsOk(r) == r.kind = "ok"
Val(r) == r.val[1]

\* -------------------------------------------------------- the parsers
\* parse_osr_key(os_release, key)
parse_osr_key(os_release, key) ==
    LET first == nth(split(os_release, key \o "="), 1)
    IN  IF IsNone(first) THEN None
        ELSE LET line == IF contains(Unwrap(first), "\n")
                         THEN next(split(Unwrap(first), "\n"))
                         ELSE first
             IN  IF IsNone(line) THEN None
                 ELSE IF contains(Unwrap(line), "\"")
                      THEN Some(remove(Unwrap(line), "\""))
                      ELSE line

\* Iterator::find(|line| line.starts_with(key))
find_starts_with(ls, key) ==
    LET hits == { i \in 1..Len(ls) : starts_with(ls[i], key) }
    IN  IF hits = {} THEN None
        ELSE Some(ls[CHOOSE i \in hits : \A j \in hits : i <= j])

\* parse_minf_key looking for the key anywhere in the line
parse_minf_key_contains(meminfo, key) ==
    LET ls == lines(meminfo)
        hits == { i \in 1..Len(ls) : contains(ls[i], key) }
    IN  IF hits = {} THEN None
        ELSE nth(split_whitespace(ls[CHOOSE i \in hits : \A j \in hits : i <= j]), 1)

\* parse_minf_key(meminfo, key)
parse_minf_key(meminfo, key) ==
    LET line == find_starts_with(lines(meminfo), key)
    IN  IF IsNone(line) THEN None
        ELSE nth(split_whitespace(Unwrap(line)), 1)

\* ------------------------------------------------- the unit converter
\* two decimal digits, as "{:.2}" writes them
two_digits(n) == Digits[(n \div 10) + 1] \o Digits[(n % 10) + 1]

\* kb_to_gb(number): Byte::from_unit(number, KB) is an Err for a negative
\* number (the unwrap panics) and number * 1000 bytes otherwise;
\* get_adjusted_unit(GB) divides the bytes by 10^9 and to_string writes the
\* quotient with two decimals and the unit.  h is the quotient in
\* hundredths, rounded to nearest.
kb_to_gb(number) ==
    IF number < 0 THEN Panic
    ELSE LET h == (number + 5000) \div 10000
         IN  Ok(to_string(h \div 100) \o "." \o two_digits(h % 100) \o " GB")

\* minf_get_gb(meminfo, key)
minf_get_gb(meminfo, key) ==
    LET tok == parse_minf_key(meminfo, key)
    IN  IF IsNone(tok) THEN Panic
        ELSE LET parsed == parse_f64(Unwrap(tok))
             IN  IF IsNone(parsed) THEN Panic ELSE kb_to_gb(Unwrap(parsed))

\* --------------------------------------------- the host identity reader
\* bytes_to_u8!: each C char reinterpreted as u8 (`*byte as u8`)
bytes_to_u8(collection) ==
    [i \in 1..Len(collection) |-> (collection[i] + 256) % 256]

is_cont(bs, i) == i <= Len(bs) /\ bs[i] \in 128..191
in_range(bs, i, lo, hi) == i <= Len(bs) /\ bs[i] \in lo..hi

\* the validation String::from_utf8 and CStr::to_str run (core::str::from_utf8)
RECURSIVE valid_utf8(_)
valid_utf8(bs) ==
    IF bs = <<>> THEN TRUE
    ELSE LET b == bs[1]
             rest(n) == valid_utf8(SubSeq(bs, n + 1, Len(bs)))
         IN  IF b < 128 THEN rest(1)
             ELSE IF b \in 194..223 THEN is_cont(bs, 2) /\ rest(2)
             ELSE IF b = 224 THEN in_range(bs, 2, 160, 191) /\ is_cont(bs, 3) /\ rest(3)
             ELSE IF b \in (225..236) \cup (238..239)
                  THEN is_cont(bs, 2) /\ is_cont(bs, 3) /\ rest(3)
             ELSE IF b = 237 THEN in_range(bs, 2, 128, 159) /\ is_cont(bs, 3) /\ rest(3)
             ELSE IF b = 240
                  THEN in_range(bs, 2, 144, 191) /\ is_cont(bs, 3) /\ is_cont(bs, 4) /\ rest(4)
             ELSE IF b \in 241..243
                  THEN is_cont(bs, 2) /\ is_cont(bs, 3) /\ is_cont(bs, 4) /\ rest(4)
             ELSE IF b = 244
                  THEN in_range(bs, 2, 128, 143) /\ is_cont(bs, 3) /\ is_cont(bs, 4) /\ rest(4)
             ELSE FALSE

\* String::from_utf8(..).expect(..) and CStr::to_str().expect(..)
from_utf8_expect(bs) == IF valid_utf8(bs) THEN Ok(bs) ELSE Panic

\* result.split('\0').next(): the bytes before the first zero byte
before_nul(bs) ==
    LET z == { i \in 1..Len(bs) : bs[i] = 0 }
    IN  IF z = {} THEN bs
        ELSE SubSeq(bs, 1, (CHOOSE i \in z : \A j \in z : i <= j) - 1)

\* lines 108-113: the text in front of the first '\0', or all of it
strip_at_nul(result) ==
    IF \E i \in 1..Len(result) : result[i] = 0
    THEN Some(before_nul(result))
    ELSE Some(result)

\* CStr::from_ptr of the null pointer getlogin() returns when there is no
\* login name is undefined behaviour: the read of address 0 faults, or reads
\* bytes that are not text, or reads an empty name.
getlogin_null == { Segv, Panic, Ok(Some(<<>>)) }

Types == {"Username", "HostName", "KernelVersion"}

\* get_by_type(type): the set of results the call can have.  login is what
\* getlogin() yields (None: the null pointer, Some(cs): the C string cs),
\* info the utsname that uname() fills.
get_by_type(type, login, info) ==
    IF type = "Username" /\ IsNone(login) THEN getlogin_null
    ELSE LET raw == IF type = "Username" THEN Unwrap(login)
                    ELSE IF type = "HostName" THEN info.nodename
                    ELSE info.release
             result == from_utf8_expect(bytes_to_u8(raw))
         IN  IF ~IsOk(result) THEN {Panic}
             ELSE {Ok(strip_at_nul(Val(result)))}

\* ---------------------------------------------------- the uptime reader
\* format_uptime choosing the plural from 1 on
format_uptime_plural(total_seconds, days, hours, minutes) ==
    LET r1 == IF days > 0
              THEN to_string(days) \o (IF days >= 1 THEN " days" ELSE " day")
                   \o (IF hours > 0 THEN "," ELSE "")
              ELSE ""
        r2 == IF hours > 0
              THEN r1 \o (IF days > 0 THEN " " ELSE "")
                   \o to_string(hours) \o (IF hours >= 1 THEN " hours" ELSE " hour")
                   \o (IF minutes > 0 THEN "," ELSE "")
              ELSE r1
        r3 == IF minutes > 0
              THEN r2 \o (IF hours > 0 \/ days > 0 THEN " " ELSE "")
                   \o to_string(minutes)
                   \o (IF minutes >= 1 THEN " minutes" ELSE " minute")
              ELSE r2
    IN  IF r3 = ""
        THEN to_string(total_seconds)
             \o (IF total_seconds > 1 THEN " seconds" ELSE " second")
        ELSE r3

\* lines 130-171: the formatted text
format_uptime(total_seconds, days, hours, minutes) ==
    LET r1 == IF days > 0
              THEN to_string(days) \o (IF days > 1 THEN " days" ELSE " day")
                   \o (IF hours > 0 THEN "," ELSE "")
              ELSE ""
        r2 == IF hours > 0
              THEN r1 \o (IF days > 0 THEN " " ELSE "")
                   \o to_string(hours) \o (IF hours > 1 THEN " hours" ELSE " hour")
                   \o (IF minutes > 0 THEN "," ELSE "")
              ELSE r1
        r3 == IF minutes > 0
              THEN r2 \o (IF hours > 0 \/ days > 0 THEN " " ELSE "")
                   \o to_string(minutes)
                   \o (IF minutes > 1 THEN " minutes" ELSE " minute")
              ELSE r2
    IN  IF r3 = ""
        THEN to_string(total_seconds)
             \o (IF total_seconds > 1 THEN " seconds" ELSE " second")
        ELSE r3

\* parse_total_seconds ending the token at the first '.' or blank
parse_total_seconds_ws(content) ==
    LET stops == { i \in 1..Len(content) : Char(content, i) \in {".", " ", "\n", "\t"} }
        e == IF stops = {} THEN Len(content) + 1
             ELSE CHOOSE i \in stops : \A j \in stops : i <= j
        parsed == parse_u32(SubSeq(content, 1, e - 1))
    IN  IF IsSome(parsed) THEN Unwrap(parsed) ELSE 0

\* lines 121-126: split('.').next().unwrap_or_default().parse().unwrap_or_default()
parse_total_seconds(content) ==
    LET tok == next(split(content, "."))
        parsed == parse_u32(IF IsSome(tok) THEN Unwrap(tok) ELSE "")
    IN  IF IsSome(parsed) THEN Unwrap(parsed) ELSE 0

\* get_uptime reporting the hours within the day
get_uptime_hours_in_day(file) ==
    IF IsNone(file) THEN Panic
    ELSE LET total_seconds == parse_total_seconds(Unwrap(file))
             days == total_seconds \div 86400
             hours == (total_seconds % 86400) \div 3600
             minutes == (total_seconds % 3600) \div 60
         IN  Ok([formatted |-> format_uptime(total_seconds, days, hours, minutes),
                 seconds |-> total_seconds,
                 minutes |-> minutes,
                 hours |-> hours,
                 days |-> days])

\* get_uptime(): file is what read_to_string("/proc/uptime") yields, None
\* when it fails (the expect panics)
get_uptime(file) ==
    IF IsNone(file) THEN Panic
    ELSE LET total_seconds == parse_total_seconds(Unwrap(file))
             days == total_seconds \div 86400
             hours == total_seconds \div 3600
             minutes == (total_seconds % 3600) \div 60
         IN  Ok([formatted |-> format_uptime(total_seconds, days, hours, minutes),
                 seconds |-> total_seconds,
                 minutes |-> minutes,
                 hours |-> hours,
                 days |-> days])

\* ================================================================ state
VARIABLES
    pc,      \* the statement of get_system_information to run next
    env,     \* what the operating system holds: the three files (None: not
             \* readable), SHELL (None: unset), the login name, the utsname
    v,       \* the local variables of get_system_information
    result,  \* what the call returned: pending, Some(info), None, panic, segv
    seen,    \* the kinds of failure the calls made so far have ended in
    call,    \* a direct call of one function: its name and arguments
    ret      \* what the direct call returned, <<>> before it ran

vars == <<pc, env, v, result, seen, call, ret>>

\* -------------------------------------------------------- environments
\* /proc/meminfo with the given MemTotal, Cached and MemAvailable (kB)
MeminfoText(total, cached, available) ==
    "MemTotal:       " \o to_string(total) \o " kB\n"
    \o "MemAvailable:   " \o to_string(available) \o " kB\n"
    \o "Cached:         " \o to_string(cached) \o " kB\n"
    \o "SwapCached:            0 kB\n"

GoodOsRelease ==
    "NAME=\"Arch Linux\"\nPRETTY_NAME=\"Arch Linux\"\nID=arch\nBUILD_ID=rolling\n"

\* a host on which every source is present and well formed
GoodEnv ==
    [os_release |-> Some(GoodOsRelease),
     meminfo |-> Some(MeminfoText(16384000, 4096000, 8192000)),
     uptime |-> Some("12345.67 8900.11\n"),
     SHELL |-> Some("/bin/zsh"),
     login |-> Some(<<117>>),
     nodename |-> <<104, 0, 0, 0>>,
     release |-> <<54, 46, 49, 0>>]

NoUptime == [formatted |-> "", seconds |-> 0, minutes |-> 0, hours |-> 0, days |-> 0]

\* the locals before any statement ran
V0 ==
    [os_release |-> "", meminfo |-> "",
     distro_name |-> "", distro_id |-> "", distro_build_id |-> "",
     username |-> <<>>, hostname |-> <<>>, shell |-> "", kernel |-> <<>>,
     total_mem |-> "", cached_mem |-> "", available_mem |-> "",
     total_kb |-> 0, available_kb |-> 0, used_mem |-> "",
     uptime |-> NoUptime]

Pending == [kind |-> "pending", info |-> <<>>]
NoCall == [fn |-> "none"]

\* the state as get_system_information is entered under environment e
Enter(e) ==
    /\ pc = "os_release"
    /\ env = e
    /\ v = V0
    /\ result = Pending
    /\ seen = {}
    /\ call = NoCall
    /\ ret = <<>>

\* ------------------------------------------- get_system_information
\* the call ends without a SystemInfo: `?` on a None (kind "None"), a panic
\* of expect/unwrap (kind "panic"), or the process killed (kind "segv")
Fail(kind) ==
    /\ pc' = "done"
    /\ result' = [kind |-> kind, info |-> <<>>]
    /\ seen' = seen \cup {kind}
    /\ UNCHANGED <<env, v, call, ret>>

\* the statement assigned its local; go on with the next statement
Goto(label, newv) ==
    /\ pc' = label
    /\ v' = newv
    /\ UNCHANGED <<env, result, seen, call, ret>>

\* lines 185-186
ReadOsRelease ==
    /\ pc = "os_release"
    /\ IF IsNone(env.os_release) THEN Fail("panic")
       ELSE Goto("meminfo", [v EXCEPT !.os_release = Unwrap(env.os_release)])

\* line 187
ReadMeminfo ==
    /\ pc = "meminfo"
    /\ IF IsNone(env.meminfo) THEN Fail("panic")
       ELSE Goto("distro_name", [v EXCEPT !.meminfo = Unwrap(env.meminfo)])

\* line 188
DistroName ==
    /\ pc = "distro_name"
    /\ LET r == parse_osr_key(v.os_release, "NAME")
       IN  IF IsNone(r) THEN Fail("None")
           ELSE Goto("distro_id", [v EXCEPT !.distro_name = Unwrap(r)])

\* line 189
DistroId ==
    /\ pc = "distro_id"
    /\ LET r == parse_osr_key(v.os_release, "ID")
       IN  IF IsNone(r) THEN Fail("None")
           ELSE Goto("distro_build_id", [v EXCEPT !.distro_id = Unwrap(r)])

\* line 190
DistroBuildId ==
    /\ pc = "distro_build_id"
    /\ LET r == parse_osr_key(v.os_release, "BUILD_ID")
       IN  IF IsNone(r) THEN Fail("None")
           ELSE Goto("username", [v EXCEPT !.distro_build_id = Unwrap(r)])

\* `let x = get_by_type(t)?;` with r the result of the call
Identity(r, label, newv) ==
    IF ~IsOk(r) THEN Fail(r.kind)
    ELSE IF IsNone(Val(r)) THEN Fail("None")
    ELSE Goto(label, newv)

\* line 192
Username ==
    /\ pc = "username"
    /\ \E r \in get_by_type("Username", env.login, env) :
          Identity(r, "hostname",
                   [v EXCEPT !.username = IF IsOk(r) THEN Unwrap(Val(r)) ELSE <<>>])

\* line 193
HostName ==
    /\ pc = "hostname"
    /\ \E r \in get_by_type("HostName", env.login, env) :
          Identity(r, "shell",
                   [v EXCEPT !.hostname = IF IsOk(r) THEN Unwrap(Val(r)) ELSE <<>>])

\* line 194: std::env::var("SHELL").unwrap().split('/').last()?
Shell ==
    /\ pc = "shell"
    /\ IF IsNone(env.SHELL) THEN Fail("panic")
       ELSE LET r == last(split(Unwrap(env.SHELL), "/"))
            IN  IF IsNone(r) THEN Fail("None")
                ELSE Goto("kernel", [v EXCEPT !.shell = Unwrap(r)])

\* line 195
Kernel ==
    /\ pc = "kernel"
    /\ \E r \in get_by_type("KernelVersion", env.login, env) :
          Identity(r, "total_mem",
                   [v EXCEPT !.kernel = IF IsOk(r) THEN Unwrap(Val(r)) ELSE <<>>])

\* line 197
TotalMem ==
    /\ pc = "total_mem"
    /\ LET r == minf_get_gb(v.meminfo, "MemTotal")
       IN  IF ~IsOk(r) THEN Fail("panic")
           ELSE Goto("cached_mem", [v EXCEPT !.total_mem = Val(r)])

\* line 198
CachedMem ==
    /\ pc = "cached_mem"
    /\ LET r == minf_get_gb(v.meminfo, "Cached")
       IN  IF ~IsOk(r) THEN Fail("panic")
           ELSE Goto("available_mem", [v EXCEPT !.cached_mem = Val(r)])

\* line 199
AvailableMem ==
    /\ pc = "available_mem"
    /\ LET r == minf_get_gb(v.meminfo, "MemAvailable")
       IN  IF ~IsOk(r) THEN Fail("panic")
           ELSE Goto("total_kb", [v EXCEPT !.available_mem = Val(r)])

\* `parse_minf_key(&meminfo, key)?.parse().unwrap()` of lines 201 and 202
parse_kb(meminfo, key) ==
    LET tok == parse_minf_key(meminfo, key)
    IN  IF IsNone(tok) THEN [kind |-> "None", val |-> <<>>]
        ELSE LET parsed == parse_f64(Unwrap(tok))
             IN  IF IsNone(parsed) THEN Panic ELSE Ok(Unwrap(parsed))

\* line 201
TotalKb ==
    /\ pc = "total_kb"
    /\ LET r == parse_kb(v.meminfo, "MemTotal")
       IN  IF ~IsOk(r) THEN Fail(r.kind)
           ELSE Goto("available_kb", [v EXCEPT !.total_kb = Val(r)])

\* line 202
AvailableKb ==
    /\ pc = "available_kb"
    /\ LET r == parse_kb(v.meminfo, "MemAvailable")
       IN  IF ~IsOk(r) THEN Fail(r.kind)
           ELSE Goto("used_mem", [v EXCEPT !.available_kb = Val(r)])

\* used memory with a negative difference clamped to zero
used_mem_clamped(total_kb, available_kb) ==
    kb_to_gb(IF total_kb < available_kb THEN 0 ELSE total_kb - available_kb)

\* line 203: kb_to_gb(total_kb - available_kb)
used_mem_of(total_kb, available_kb) == kb_to_gb(total_kb - available_kb)

UsedMem ==
    /\ pc = "used_mem"
    /\ LET r == used_mem_of(v.total_kb, v.available_kb)
       IN  IF ~IsOk(r) THEN Fail("panic")
           ELSE Goto("uptime", [v EXCEPT !.used_mem = Val(r)])

\* line 205
GetUptime ==
    /\ pc = "uptime"
    /\ LET r == get_uptime(env.uptime)
       IN  IF ~IsOk(r) THEN Fail("panic")
           ELSE Goto("return", [v EXCEPT !.uptime = Val(r)])

\* lines 207-224
SystemInfo(l) ==
    [distro_name |-> l.distro_name,
     distro_id |-> l.distro_id,
     distro_build_id |-> l.distro_build_id,
     username |-> l.username,
     hostname |-> l.hostname,
     shell |-> l.shell,
     kernel |-> l.kernel,
     uptime_seconds |-> l.uptime.seconds,
     uptime_minutes |-> l.uptime.minutes,
     uptime_hours |-> l.uptime.hours,
     uptime_days |-> l.uptime.days,
     uptime_formatted |-> l.uptime.formatted,
     total_mem |-> l.total_mem,
     cached_mem |-> l.cached_mem,
     available_mem |-> l.available_mem,
     used_mem |-> l.used_mem]

Return ==
    /\ pc = "return"
    /\ pc' = "done"
    /\ result' = [kind |-> "Some", info |-> SystemInfo(v)]
    /\ UNCHANGED <<env, v, seen, call, ret>>

\* one call of get_system_information, statement by statement
Gather ==
    \/ ReadOsRelease
    \/ ReadMeminfo
    \/ DistroName
    \/ DistroId
    \/ DistroBuildId
    \/ Username
    \/ HostName
    \/ Shell
    \/ Kernel
    \/ TotalMem
    \/ CachedMem
    \/ AvailableMem
    \/ TotalKb
    \/ AvailableKb
    \/ UsedMem
    \/ GetUptime
    \/ Return

\* the caller calls get_system_information again, under environment e
Invoke(e) ==
    /\ pc = "done"
    /\ pc' = "os_release"
    /\ env' = e
    /\ v' = V0
    /\ result' = Pending
    /\ UNCHANGED <<seen, call, ret>>

\* ------------------------------------------------ direct calls (pub fn
\* get_by_type, and the parsers as their callers use them)
Direct(c) ==
    /\ pc = "direct"
    /\ env = GoodEnv
    /\ v = V0
    /\ result = Pending
    /\ seen = {}
    /\ call = c
    /\ ret = <<>>

CallParseMinfKey ==
    /\ call.fn = "parse_minf_key"
    /\ ret = <<>>
    /\ ret' = <<parse_minf_key(call.meminfo, call.key)>>
    /\ UNCHANGED <<pc, env, v, result, seen, call>>

CallGetByType ==
    /\ call.fn = "get_by_type"
    /\ ret = <<>>
    /\ \E r \in get_by_type(call.type, call.login, call.info) : ret' = <<r>>
    /\ UNCHANGED <<pc, env, v, result, seen, call>>

\* ===================================================== specifications
\* --- Spec: hosts on which one source is missing or malformed
FaultyOsRelease ==
    { None,                                           \* not readable
      Some("ID=arch\nBUILD_ID=rolling\n"),            \* no NAME
      Some("NAME=\"Arch Linux\"\n"),                  \* no ID, no BUILD_ID
      Some("NAME=\"Arch Linux\"\nID=arch\n") }        \* no BUILD_ID

FaultyMeminfo ==
    { None,                                                            \* not readable
      Some("MemAvailable:   8192000 kB\nCached:         4096000 kB\n"),  \* no MemTotal
      Some("MemTotal:       16384000 kB\nCached:         4096000 kB\n"), \* no MemAvailable
      Some("MemTotal:       16384000 kB\nMemAvailable:   8192000 kB\n"), \* no Cached
      Some("MemTotal:\nMemAvailable:   8192000 kB\nCached:         4096000 kB\n"),
      Some("MemTotal:       kB\nMemAvailable:   8192000 kB\nCached:         4096000 kB\n"),
      Some("MemTotal:       16384000 kB\nMemAvailable:   lots kB\nCached:         4096000 kB\n"),
      Some(MeminfoText(8192000, 4096000, 16384000)) }                  \* available > total

FaultyEnvs ==
    { [GoodEnv EXCEPT !.os_release = x] : x \in FaultyOsRelease }
    \cup { [GoodEnv EXCEPT !.meminfo = x] : x \in FaultyMeminfo }
    \cup { [GoodEnv EXCEPT !.uptime = None],
           [GoodEnv EXCEPT !.SHELL = None],
           [GoodEnv EXCEPT !.login = None],
           [GoodEnv EXCEPT !.login = Some(<<-1>>)],
           [GoodEnv EXCEPT !.nodename = <<104, -1, 0, 0>>],
           [GoodEnv EXCEPT !.release = <<54, -1, 0, 0>>] }

Envs == {GoodEnv} \cup FaultyEnvs

Init == \E e \in Envs : Enter(e)

Reinvoke == \E e \in Envs : Invoke(e)

Next == Gather \/ Reinvoke

Spec == Init /\ [][Next]_vars

\* --- SpecMem: every MemTotal / MemAvailable pair of a grid of sizes
MaxMemUnits == 5
KbStep == 3276800
MemValues == { i * KbStep : i \in 0..MaxMemUnits }

MemEnvs ==
    { [GoodEnv EXCEPT !.meminfo = Some(MeminfoText(t, 4096000, a))] :
        t \in MemValues, a \in MemValues }

InitMem == \E e \in MemEnvs : Enter(e)

SpecMem == InitMem /\ [][Gather]_vars

\* --- SpecUptime: contents of /proc/uptime, well formed and not
MaxDays == 2
MaxHours == 2
MaxMinutes == 2
MaxSecs == 2
UptimeSeconds ==
    { d * 86400 + h * 3600 + m * 60 + s_ :
        d \in 0..MaxDays, h \in 0..MaxHours, m \in 0..MaxMinutes, s_ \in 0..MaxSecs }

\* what follows the whole seconds: the usual fraction and idle time, or a
\* content that lacks the fraction, or nothing at all
UptimeTails == { ".67 8900.11\n", " 8900.11\n", "\n", "" }

\* first tokens that are no number of seconds, or too large a one
OddSeconds == { "", "abc", "-5", "+59", "1e3", "4294967296", "99999999999", "007" }

UptimeContents ==
    { to_string(n) \o t : n \in UptimeSeconds, t \in UptimeTails }
    \cup { o \o ".67 8900.11\n" : o \in OddSeconds }

UptimeEnvs == { [GoodEnv EXCEPT !.uptime = Some(c)] : c \in UptimeContents }

InitUptime == \E e \in UptimeEnvs : Enter(e)

SpecUptime == InitUptime /\ [][Gather]_vars

\* --- SpecOsr: every os-release text of up to MaxOsrLines KEY=VALUE lines
MaxOsrLines == 3
OsrLines ==
    { "NAME=\"Arch Linux\"", "NAME=",
      "PRETTY_NAME=\"Arch Linux (rolling)\"", "PRETTY_NAME=",
      "ID=arch", "ID=",
      "BUILD_ID=rolling", "BUILD_ID=",
      "VERSION_ID=2024", "VERSION_ID=" }

RECURSIVE OsrTexts(_)
OsrTexts(n) ==
    IF n = 0 THEN {""}
    ELSE LET shorter == OsrTexts(n - 1)
         IN  shorter \cup { l \o "\n" \o t : l \in OsrLines, t \in shorter }

OsrEnvs == { [GoodEnv EXCEPT !.os_release = Some(t)] : t \in OsrTexts(MaxOsrLines) }

InitOsr == \E e \in OsrEnvs : Enter(e)

SpecOsr == InitOsr /\ [][Gather]_vars

\* --- SpecMinf: parse_minf_key on every text of up to MaxText characters
MaxText == 5
MinfAlphabet == { "M", "e", " ", "\n", "7" }
MinfKeys == { "M", "Me" }

RECURSIVE Texts(_, _)
Texts(alphabet, n) ==
    IF n = 0 THEN {""}
    ELSE LET shorter == Texts(alphabet, n - 1)
         IN  shorter \cup { c \o t : c \in alphabet, t \in shorter }

InitMinf ==
    \E t \in Texts(MinfAlphabet, MaxText), k \in MinfKeys :
        Direct([fn |-> "parse_minf_key", meminfo |-> t, key |-> k])

SpecMinf == InitMinf /\ [][CallParseMinfKey]_vars

\* --- SpecUname: get_by_type on every utsname field of BufLen C chars
\* drawn from: the terminator, 'h', the two bytes of U+00E9, and 0xFF
BufLen == 4
CChars == { 0, 104, -61, -87, -1 }

RECURSIVE Buffers(_)
Buffers(n) ==
    IF n = 0 THEN {<<>>}
    ELSE { <<c>> \o b : c \in CChars, b \in Buffers(n - 1) }

Logins == { None, Some(<<117>>), Some(<<-1>>) }

InitUname ==
    \E b \in Buffers(BufLen), t \in Types, l \in Logins :
        Direct([fn |-> "get_by_type", type |-> t, login |-> l,
                info |-> [nodename |-> b, release |-> b]])

SpecUname == InitUname /\ [][CallGetByType]_vars

\* ================================================================ claims
\* the least element of a non-empty set of numbers
Least(S) == CHOOSE i \in S : \A j \in S : i <= j

\* ---------------------------------------------------------------- C1
\* C1: get_system_information applies one failure policy: whichever
\* required field cannot be obtained, the call ends in the same kind of
\* failure.  Over the calls made so far, at most one kind of failure has
\* been seen.
C1_OneFailurePolicy == Cardinality(seen) <= 1

\* ---------------------------------------------------------------- C2
\* C2: with MemTotal >= MemAvailable >= 0 the call yields used_mem =
\* kb_to_gb(total - available), a text without a minus sign; with
\* MemAvailable > MemTotal the call fails: used_mem is never assigned and
\* no SystemInfo is returned.
C2_UsedMem ==
    \A t \in MemValues, a \in MemValues :
        env.meminfo = Some(MeminfoText(t, 4096000, a)) =>
            /\ (t >= a /\ pc \in {"uptime", "return"}) =>
                   /\ v.used_mem = Val(kb_to_gb(t - a))
                   /\ ~contains(v.used_mem, "-")
            /\ (t >= a /\ pc = "done") =>
                   /\ result.kind = "Some"
                   /\ result.info.used_mem = Val(kb_to_gb(t - a))
            /\ a > t =>
                   /\ pc \notin {"uptime", "return"}
                   /\ v.used_mem = ""
                   /\ result.kind # "Some"
                   /\ pc = "done" => result.kind = "panic"

\* a call that returned the used memory of a host with 0 < available < total
C2_Witness ==
    /\ pc = "done"
    /\ result.kind = "Some"
    /\ env.meminfo = Some(MeminfoText(2 * KbStep, 4096000, KbStep))
    /\ result.info.used_mem = Val(kb_to_gb(KbStep))
    /\ result.info.used_mem # result.info.total_mem

\* ---------------------------------------------------------------- C3
\* "<n> <unit>", the unit in the singular for n = 1 and the plural otherwise
Clause(n, unit) == to_string(n) \o " " \o unit \o (IF n = 1 THEN "" ELSE "s")

\* the clauses of the non-zero components, in the order days, hours, minutes
Clauses(days, hours, minutes) ==
    (IF days # 0 THEN <<Clause(days, "day")>> ELSE <<>>)
    \o (IF hours # 0 THEN <<Clause(hours, "hour")>> ELSE <<>>)
    \o (IF minutes # 0 THEN <<Clause(minutes, "minute")>> ELSE <<>>)

RECURSIVE Join(_)
Join(cs) ==
    IF Len(cs) = 0 THEN ""
    ELSE IF Len(cs) = 1 THEN cs[1]
    ELSE cs[1] \o ", " \o Join(Tail(cs))

C4_SecondsFallback ==
    result.kind = "Some" =>
        LET i == result.info
        IN  (i.uptime_days = 0 /\ i.uptime_hours = 0 /\ i.uptime_minutes = 0) =>
                i.uptime_formatted
                    = to_string(i.uptime_seconds)
                      \o (IF i.uptime_seconds = 1 THEN " second" ELSE " seconds")

FirstToken(content, delims) ==
    LET stops == { i \in 1..Len(content) : Char(content, i) \in delims }
    IN  IF stops = {} THEN content ELSE SubSeq(content, 1, Least(stops) - 1)

\* the number a token stands for, 0 when it is no u32
SecondsOf(token) ==
    IF IsSome(parse_u32(token)) THEN Unwrap(parse_u32(token)) ELSE 0

\* the gather, every other source being in order, returns a SystemInfo
\* whose seconds are those of the first token ended by one of delims
UptimeToken(delims) ==
    /\ pc = "return" =>
           v.uptime.seconds = SecondsOf(FirstToken(Unwrap(env.uptime), delims))
    /\ pc = "done" =>
           /\ result.kind = "Some"
           /\ result.info.uptime_seconds
                  = SecondsOf(FirstToken(Unwrap(env.uptime), delims))

\* C6 as stated: the elapsed seconds are the integer part of the first
\* whitespace- or dot-delimited token, 0 when that token is no number, and
\* the gather does not fail.
C6_WhitespaceOrDotToken == UptimeToken({".", " ", "\n", "\t"})

\* C6 as amended: the elapsed seconds are the number in front of the first
\* '.' (the whole content when it holds none), whitespace not ending the
\* token; 0 when that text is no u32, and the gather does not fail.
C6_DotToken == UptimeToken({"."})

\* a content whose seconds are followed by a blank, not a '.': 0 seconds
C6_Witness ==
    /\ pc = "done"
    /\ result.kind = "Some"
    /\ env.uptime = Some("3600 8900.11\n")
    /\ result.info.uptime_seconds = 0

\* ---------------------------------------------------------------- C7
\* the first "KEY=" of text is followed by a value on its line
KeyHasValue(text, key) ==
    LET i == Find(text, key \o "=")
        j == i + Len(key) + 1
    IN  i # 0 /\ j <= Len(text) /\ Char(text, j) # "\n"

\* C7: parse_osr_key returns None when the key is not found or has no
\* value on its line.  A statement `let x = parse_osr_key(..)?` is passed
\* only with a Some, so it is passed only when the key has a value.
C7_AbsentWithoutValue ==
    /\ pc = "distro_id" => KeyHasValue(v.os_release, "NAME")
    /\ pc = "distro_build_id" => KeyHasValue(v.os_release, "ID")
    /\ pc = "username" => KeyHasValue(v.os_release, "BUILD_ID")

\* ---------------------------------------------------------------- C10
\* the lines of text whose key name is exactly key
ExactLines(text, key) ==
    { i \in 1..Len(lines(text)) : starts_with(lines(text)[i], key \o "=") }

\* the value of the first such line, double quotes removed
ExactValue(text, key) ==
    LET l == lines(text)[Least(ExactLines(text, key))]
    IN  remove(SubSeq(l, Len(key) + 2, Len(l)), "\"")

\* C10: the value parse_osr_key returns is that of the first line whose
\* key name is exactly the key, never that of a line whose key name only
\* ends with it: distro_name, distro_id and distro_build_id are the values
\* of the NAME, ID and BUILD_ID lines.
C10_ExactKeyLine ==
    /\ (pc = "distro_id" /\ ExactLines(v.os_release, "NAME") # {}) =>
           v.distro_name = ExactValue(v.os_release, "NAME")
    /\ (pc = "distro_build_id" /\ ExactLines(v.os_release, "ID") # {}) =>
           v.distro_id = ExactValue(v.os_release, "ID")
    /\ (pc = "username" /\ ExactLines(v.os_release, "BUILD_ID") # {}) =>
           v.distro_build_id = ExactValue(v.os_release, "BUILD_ID")

\* ---------------------------------------------------------------- C8
\* the places of text where a line begins
LineStarts(text) ==
    { p \in 1..Len(text) : p = 1 \/ Char(text, p - 1) = "\n" }

\* one past the last character of the line that begins at p
LineEnd(text, p) ==
    LET nl == { i \in p..Len(text) : Char(text, i) = "\n" }
    IN  IF nl = {} THEN Len(text) + 1 ELSE Least(nl)

\* the places where a token of the line from p to e - 1 begins
TokenStarts(text, p, e) ==
    { i \in p..(e - 1) :
        /\ ~is_whitespace(Char(text, i))
        /\ i = p \/ is_whitespace(Char(text, i - 1)) }

\* the token that begins at i
TokenAt(text, i, e) ==
    LET ws == { k \in i..(e - 1) : is_whitespace(Char(text, k)) }
    IN  SubSeq(text, i, (IF ws = {} THEN e ELSE Least(ws)) - 1)

\* the second token of the first line of text that begins with key
SecondTokenOfFirstMatch(text, key) ==
    LET starts == { p \in LineStarts(text) : MatchAt(text, key, p)
                                             /\ p + Len(key) <= LineEnd(text, p) }
    IN  IF starts = {} THEN None
        ELSE LET p == Least(starts)
                 e == LineEnd(text, p)
                 toks == TokenStarts(text, p, e)
             IN  IF Cardinality(toks) < 2 THEN None
                 ELSE Some(TokenAt(text, Least(toks \ {Least(toks)}), e))

\* C8: parse_minf_key returns the second whitespace-separated token of the
\* first line whose prefix is the key, and None when no line has that
\* prefix or that line has fewer than two tokens.
C8_SecondToken ==
    (call.fn = "parse_minf_key" /\ ret # <<>>) =>
        ret[1] = SecondTokenOfFirstMatch(call.meminfo, call.key)

\* the second line is the first to begin with the key
C8_Witness ==
    /\ call.fn = "parse_minf_key"
    /\ call.meminfo = "e\nM 7"
    /\ call.key = "M"
    /\ ret = <<Some("7")>>

\* ---------------------------------------------------------------- C9
\* the places of the terminator in a raw field
Terminators(raw) == { i \in 1..Len(raw) : raw[i] = 0 }

\* the bytes in front of the first terminator
Prefix(raw) == SubSeq(bytes_to_u8(raw), 1, Least(Terminators(raw)) - 1)

\* C9: for HostName and KernelVersion, a raw field that holds text, a
\* terminator and then any padding yields exactly the text in front of the
\* terminator, whatever the padding is.
C9_TruncatedAtTerminator ==
    (/\ call.fn = "get_by_type"
     /\ call.type \in {"HostName", "KernelVersion"}
     /\ ret # <<>>) =>
        LET raw == IF call.type = "HostName" THEN call.info.nodename
                   ELSE call.info.release
        IN  (Terminators(raw) # {} /\ valid_utf8(Prefix(raw))) =>
                ret[1] = Ok(Some(Prefix(raw)))

====
